---- MODULE Spec2Model ----
(***************************************************************************)
(* A model of the 2048 board (game.py) and of the expectimax agent         *)
(* (expectimax_agent.py).                                                  *)
(*                                                                         *)
(* Python lists are objects: two names may refer to the same list, and a   *)
(* write through one is seen through the other.  The board of a game is a  *)
(* list (the "outer" list) of row lists, so the model keeps a heap of      *)
(* outer lists and of rows, and a game holds the address of its outer      *)
(* list.  Indices are 1-based here and 0-based in the source.              *)
(***************************************************************************)
EXTENDS Integers, Sequences, FiniteSets, TLC

VARIABLES
    heap,    \* [lists: outer-list objects, rows: row objects], addressed by index
    game,    \* the game under play: [board: address of its outer list, score]
    clones,  \* the live results of game.clone(): a sequence of 0 or 1 game objects
    ret,     \* what the last call returned, and which call it was
    steps,   \* number of calls made on the game so far
    agent,   \* the ExpectimaxAgent: [depth, heuristic_weights, nodes_explored,
             \* time_taken]
    rng,     \* the state of the random source the agent samples from
    hist     \* nodes explored by get_best_move at depth 1, 2, ... on this board

vars == <<heap, game, clones, ret, steps, agent, rng, hist>>

\* Game2048.__init__(self, size=4)
Size == 4

\* Longest sequence of move / add_random_tile calls explored from a new game.
MaxSteps == 2

\* Largest exponent k of a tile 2^k on the boards given as inputs.
MaxExp == 2

\* Largest search depth an agent is constructed with.
MaxDepth == 3

\* Number of states of the random source.
NumSeeds == 2

\* Longest time a call of get_best_move takes, in ticks of the clock.
MaxElapsed == 2

\* max_moves of run_single_game: the loop makes no more moves than this.
MaxMoves == 2

\* Deepest nesting of _expectimax calls the interpreter allows (its recursion
\* limit, counted in calls of _expectimax): deeper than any search of an
\* agent of depth 1 or more goes.
RecursionLimit == MaxDepth + 1

Idx == 1..Size

Directions == 0..3

--------------------------------------------------------------------------
(* Values: rows and grids *)

RECURSIVE Pow2(_)
Pow2(k) == IF k = 0 THEN 1 ELSE 2 * Pow2(k - 1)

\* A list built by a comprehension: every element is computed when the list is
\* built, not when it is read.
List(f) == f \o <<>>

\* [0] * size
Zeros(n) == [k \in 1..n |-> 0]

\* The tiles of the row collected from its right end, so in reverse order.
CompressBackwards(row) ==
    SelectSeq([j \in 1..Len(row) |-> row[Len(row) + 1 - j]], LAMBDA x : x # 0)

\* row = [x for x in self.board[i] if x != 0]
Compress(row) == SelectSeq(row, LAMBDA x : x # 0)

\* The merge loop of _move_left over one compressed row, from index j on:
\* returns the merged tiles and the points they earned.
\* The merge loop without its test row[j] == row[j + 1]: any two neighbours
\* are merged into their sum.
RECURSIVE MergeLoopAnyPair(_, _, _, _, _)
MergeLoopAnyPair(row, j, skip, merged, points) ==
    IF j > Len(row) THEN [merged |-> merged, points |-> points]
    ELSE IF skip THEN MergeLoopAnyPair(row, j + 1, FALSE, merged, points)
    ELSE IF j + 1 <= Len(row)
         THEN MergeLoopAnyPair(row, j + 1, TRUE, Append(merged, row[j] + row[j + 1]),
                               points + row[j] + row[j + 1])
         ELSE MergeLoopAnyPair(row, j + 1, FALSE, Append(merged, row[j]), points)

\* The merge loop without skip = True: the second tile of a merged pair stays
\* in the row.
RECURSIVE MergeLoopNoSkip(_, _, _, _, _)
MergeLoopNoSkip(row, j, skip, merged, points) ==
    IF j > Len(row) THEN [merged |-> merged, points |-> points]
    ELSE IF j + 1 <= Len(row) /\ row[j] = row[j + 1]
         THEN MergeLoopNoSkip(row, j + 1, FALSE, Append(merged, row[j] * 2),
                              points + row[j] * 2)
         ELSE MergeLoopNoSkip(row, j + 1, FALSE, Append(merged, row[j]), points)

\* The merge loop with points += row[j] in place of points += row[j] * 2.
RECURSIVE MergeLoopHalfPoints(_, _, _, _, _)
MergeLoopHalfPoints(row, j, skip, merged, points) ==
    IF j > Len(row) THEN [merged |-> merged, points |-> points]
    ELSE IF skip THEN MergeLoopHalfPoints(row, j + 1, FALSE, merged, points)
    ELSE IF j + 1 <= Len(row) /\ row[j] = row[j + 1]
         THEN MergeLoopHalfPoints(row, j + 1, TRUE, Append(merged, row[j] * 2),
                                  points + row[j])
         ELSE MergeLoopHalfPoints(row, j + 1, FALSE, Append(merged, row[j]), points)

RECURSIVE MergeLoop(_, _, _, _, _)
MergeLoop(row, j, skip, merged, points) ==
    IF j > Len(row) THEN [merged |-> merged, points |-> points]
    ELSE IF skip THEN MergeLoop(row, j + 1, FALSE, merged, points)
    ELSE IF j + 1 <= Len(row) /\ row[j] = row[j + 1]
         THEN MergeLoop(row, j + 1, TRUE, Append(merged, row[j] * 2),
                        points + row[j] * 2)
         ELSE MergeLoop(row, j + 1, FALSE, Append(merged, row[j]), points)

\* The row slid with the merge loop run a second time over its own result, so
\* that a tile made by a merge merges again.
SlideRowAgain(row) ==
    LET m  == MergeLoop(Compress(row), 1, FALSE, <<>>, 0)
        m2 == MergeLoop(m.merged, 1, FALSE, <<>>, m.points)
    IN  [row |-> m2.merged \o Zeros(Size - Len(m2.merged)), points |-> m2.points]

\* One iteration of the outer loop of _move_left: the new row i and its points.
SlideRow(row) ==
    LET m == MergeLoop(Compress(row), 1, FALSE, <<>>, 0)
    IN  [row |-> m.merged \o Zeros(Size - Len(m.merged)), points |-> m.points]

\* [row[::-1] for row in self.board]
ReverseGrid(b) == List([i \in Idx |-> [j \in Idx |-> b[i][Size + 1 - j]]])

\* [list(row) for row in zip(*self.board)]
TransposeGrid(b) == List([i \in Idx |-> [j \in Idx |-> b[j][i]]])

--------------------------------------------------------------------------
(* The heap *)

EmptyHeap == [lists |-> <<>>, rows |-> <<>>]

\* The grid a game's board refers to, as a value.
Grid(h, g) == List([i \in Idx |-> h.rows[h.lists[g.board][i]]])

\* Allocate the rows of grid b and an outer list holding them; the new outer
\* list is the last one of the resulting heap.
AllocGrid(h, b) ==
    LET n == Len(h.rows)
    IN  [lists |-> Append(h.lists, [i \in Idx |-> n + i]),
         rows  |-> h.rows \o b]

\* self.board[i] = row : store a new row object in slot i of the outer list.
SetRow(h, g, i, row) ==
    LET n == Len(h.rows)
    IN  [lists |-> [h.lists EXCEPT ![g.board][i] = n + 1],
         rows  |-> Append(h.rows, row)]

\* self.board[i][j] = v : write into the row object in place.
SetCell(h, g, i, j, v) ==
    [h EXCEPT !.rows[h.lists[g.board][i]][j] = v]

\* Positions of the first occurrences in s, in order.
RECURSIVE Dedup(_, _)
Dedup(s, seen) ==
    IF s = <<>> THEN <<>>
    ELSE IF Head(s) \in seen THEN Dedup(Tail(s), seen)
    ELSE <<Head(s)>> \o Dedup(Tail(s), seen \cup {Head(s)})

RECURSIVE Flatten(_)
Flatten(ss) == IF ss = <<>> THEN <<>> ELSE Head(ss) \o Flatten(Tail(ss))

IndexOf(s, x) == CHOOSE k \in 1..Len(s) : s[k] = x

\* Garbage collection: keep the objects reachable from the games gs and number
\* them in the order they are reached.  Addresses are not observable in the
\* program, so this changes nothing it can see.
Collect(h, gs) ==
    LET outers == Dedup([k \in 1..Len(gs) |-> gs[k].board], {})
        rws    == Dedup(Flatten([k \in 1..Len(outers) |-> h.lists[outers[k]]]), {})
    IN  [heap  |-> [lists |-> [k \in 1..Len(outers) |->
                                  [i \in Idx |-> IndexOf(rws, h.lists[outers[k]][i])]],
                    rows  |-> [k \in 1..Len(rws) |-> h.rows[rws[k]]]],
         games |-> [k \in 1..Len(gs) |->
                       [gs[k] EXCEPT !.board = IndexOf(outers, gs[k].board)]]]

--------------------------------------------------------------------------
(* Game2048 *)

\* get_empty_cells(), and the same list built in add_random_tile(): the
\* empty cells, row by row.
RECURSIVE CellsFrom(_, _)
CellsFrom(b, n) ==
    IF n >= Size * Size THEN <<>>
    ELSE LET c == <<(n \div Size) + 1, (n % Size) + 1>>
         IN  (IF b[c[1]][c[2]] = 0 THEN <<c>> ELSE <<>>) \o CellsFrom(b, n + 1)

get_empty_cells(b) == CellsFrom(b, 0)

\* A call in progress is a record s of the heap, the game (self) and the
\* points the call has collected so far.

\* self.board[i] = merged; points += ... : m is the slid row and its points.
StoreRow(s, i, m) ==
    [heap   |-> SetRow(s.heap, s.game, i, m.row),
     game   |-> s.game,
     points |-> s.points + m.points]

\* _move_left(self), from row i on: every row is replaced, in the outer list,
\* by a new list.
RECURSIVE MoveLeftFrom(_, _)
MoveLeftFrom(s, i) ==
    IF i > Size THEN s
    ELSE MoveLeftFrom(StoreRow(s, i, SlideRow(s.heap.rows[s.heap.lists[s.game.board][i]])),
                      i + 1)

move_left(s) == MoveLeftFrom(s, 1)

\* self.board = b : self.board is bound to a new list of new rows.
SetBoard(s, b) ==
    [heap   |-> AllocGrid(s.heap, b),
     game   |-> [s.game EXCEPT !.board = Len(s.heap.lists) + 1],
     points |-> s.points]

\* _reverse_board(self)
reverse_board(s) == SetBoard(s, ReverseGrid(Grid(s.heap, s.game)))

\* _transpose_board(self)
transpose_board(s) == SetBoard(s, TransposeGrid(Grid(s.heap, s.game)))

\* _move_right(self)
move_right(s) == reverse_board(move_left(reverse_board(s)))

\* _move_up(self)
move_up(s) == transpose_board(move_left(transpose_board(s)))

\* _move_down with _move_left between its two transpositions, as _move_up
\* has it.
MoveDownAsUp(s) == transpose_board(move_left(transpose_board(s)))

\* _move_down(self)
move_down(s) == transpose_board(move_right(transpose_board(s)))

\* The if/elif chain of move(): any other direction falls through it.
Dispatch(s, direction) ==
    IF direction = 0 THEN move_up(s)
    ELSE IF direction = 1 THEN move_right(s)
    ELSE IF direction = 2 THEN move_down(s)
    ELSE IF direction = 3 THEN move_left(s)
    ELSE s

\* The end of move() with self.score = points in place of self.score += points.
MovedScoreAssigned(original, s) ==
    LET moved == original # Grid(s.heap, s.game)
    IN  [heap   |-> s.heap,
         game   |-> IF moved THEN [s.game EXCEPT !.score = s.points] ELSE s.game,
         moved  |-> moved,
         points |-> s.points]

\* The end of move() with the lists compared by identity (original is not
\* self.board): original is a deep copy, so moved is always True.
MovedByIdentity(original, s) ==
    [heap   |-> s.heap,
     game   |-> [s.game EXCEPT !.score = @ + s.points],
     moved  |-> TRUE,
     points |-> s.points]

\* The end of move(): moved = original != self.board; the score grows by the
\* points if the grid changed; (moved, points) is returned.
Moved(original, s) ==
    LET moved == original # Grid(s.heap, s.game)
    IN  [heap   |-> s.heap,
         game   |-> IF moved THEN [s.game EXCEPT !.score = @ + s.points] ELSE s.game,
         moved  |-> moved,
         points |-> s.points]

\* move(self, direction)
move(h, g, direction) ==
    Moved(Grid(h, g), Dispatch([heap |-> h, game |-> g, points |-> 0], direction))

\* add_random_tile(self) with the indices of the cell exchanged
\* (self.board[j][i] for self.board[i][j]).
AddTileTransposed(h, g, cell, v) == SetCell(h, g, cell[2], cell[1], v)

\* add_random_tile(self), with the two random draws as arguments: cell is what
\* random.choice(empty_cells) returned and v is 2 or 4.
add_random_tile(h, g, cell, v) == SetCell(h, g, cell[1], cell[2], v)

\* copy.deepcopy(self.board): new rows and a new outer list.
deepcopy(h, g) == AllocGrid(h, Grid(h, g))

\* clone(self) with copy.copy in place of copy.deepcopy: the new outer list
\* holds the rows of the original.
CloneShallow(h, g) ==
    [heap |-> [lists |-> Append(h.lists, h.lists[g.board]), rows |-> h.rows],
     game |-> [board |-> Len(h.lists) + 1, score |-> g.score]]

\* clone(self).  The grid the constructor builds for new_game (two random tiles
\* on an empty grid) is dropped when new_game.board is assigned.
clone(h, g) ==
    LET h2 == deepcopy(h, g)
    IN  [heap |-> h2, game |-> [board |-> Len(h2.lists), score |-> g.score]]

\* test_game.move(direction), for the record c that clone() returned
MoveClone(c, direction) == move(c.heap, c.game, direction)

\* One turn of the loop of get_available_moves() without the test of moved.
TriedAny(a, r) ==
    [heap      |-> r.heap,
     moves     |-> Append(a.moves, a.direction),
     direction |-> a.direction + 1]

\* One turn of the loop of get_available_moves() with the points the move
\* returned tested in place of moved.
TriedByPoints(a, r) ==
    [heap      |-> r.heap,
     moves     |-> IF r.points > 0 THEN Append(a.moves, a.direction) ELSE a.moves,
     direction |-> a.direction + 1]

\* One turn of the loop of get_available_moves(): a is the state of the loop
\* (the heap, the moves found and the direction being tried) and r is what
\* the move on the clone returned.
Tried(a, r) ==
    [heap      |-> r.heap,
     moves     |-> IF r.moved THEN Append(a.moves, a.direction) ELSE a.moves,
     direction |-> a.direction + 1]

\* The loop of get_available_moves() with test_game = self in place of
\* test_game = self.clone(): each direction is tried on the game itself.
RECURSIVE AvailableFromSelf(_, _)
AvailableFromSelf(a, g) ==
    IF a.direction >= 4 THEN a
    ELSE AvailableFromSelf(Tried(a, move(a.heap, g, a.direction)), g)

\* The loop of get_available_moves(self): each direction is tried on a clone.
RECURSIVE AvailableFrom(_, _)
AvailableFrom(a, g) ==
    IF a.direction >= 4 THEN a
    ELSE AvailableFrom(Tried(a, MoveClone(clone(a.heap, g), a.direction)), g)

\* get_available_moves(self): the heap the call leaves and the moves.
get_available_moves(h, g) ==
    AvailableFrom([heap |-> h, moves |-> <<>>, direction |-> 0], g)

\* len(moves) == 0
NoMoves(a) == [heap |-> a.heap, over |-> Len(a.moves) = 0]

\* is_game_over(self)
is_game_over(h, g) == NoMoves(get_available_moves(h, g))

--------------------------------------------------------------------------
(* Games as values.  A search works on clones of the board it is given: the
   grid of a clone after a call is computed by running the call on a heap
   that holds that grid alone. *)

AsGame(b) ==
    [heap |-> AllocGrid(EmptyHeap, b), game |-> [board |-> 1, score |-> 0]]

GridOf(s) == Grid(s.heap, s.game)

CloneOf(s) == clone(s.heap, s.game)

\* test_game = game.clone(); test_game.move(direction): the clone's grid.
AfterMove(b, direction) == GridOf(MoveClone(CloneOf(AsGame(b)), direction))

\* test_game.board[i][j] = v, for the record c that clone() returned
WriteClone(c, cell, v) ==
    [heap |-> SetCell(c.heap, c.game, cell[1], cell[2], v), game |-> c.game]

\* test_game = game.clone(); test_game.board[i][j] = v: the clone's grid.
AfterPlace(b, cell, v) == GridOf(WriteClone(CloneOf(AsGame(b)), cell, v))

\* test_game = game.clone(); moved, _ = test_game.move(direction)
CanMove(b, direction) == MoveClone(CloneOf(AsGame(b)), direction).moved

\* game.get_available_moves(), in the order it lists the moves.
MoveList(b) == SelectSeq(<<0, 1, 2, 3>>, LAMBDA direction : CanMove(b, direction))

\* game.is_game_over()
GameOver(b) == MoveList(b) = <<>>

--------------------------------------------------------------------------
(* Numbers.  The agent computes in floating point; the model computes the
   same expressions exactly.  A value is the rational q + r / Den with
   0 <= r < Den.  Den is a multiple of (10 * k)^2 for every sample size k a
   chance node uses, so the values of a search with at most two plies of
   chance nodes above its leaves are exact. *)

Den == 8400 * 8400

Num(n) == [q |-> n, r |-> 0]

Carry(q, r) == [q |-> q + (r \div Den), r |-> r % Den]

Plus(a, b) == Carry(a.q + b.q, a.r + b.r)

Times(n, a) == Carry(n * a.q, n * a.r)

\* a / m, for m a divisor of 8400
Over(a, m) == [q |-> a.q \div m, r |-> (a.q % m) * (Den \div m) + (a.r \div m)]

Less(a, b) == a.q < b.q \/ (a.q = b.q /\ a.r < b.r)

MaxOf(a, b) == IF Less(a, b) THEN b ELSE a

RECURSIVE Log2(_)
Log2(v) == IF v <= 1 THEN 0 ELSE 1 + Log2(v \div 2)

Abs(x) == IF x < 0 THEN -x ELSE x

Max2(x, y) == IF x >= y THEN x ELSE y

Min2(x, y) == IF x <= y THEN x ELSE y

--------------------------------------------------------------------------
(* ExpectimaxAgent *)

\* The sum of the first n elements of the list s.
RECURSIVE SumTo(_, _)
SumTo(s, n) == IF n = 0 THEN 0 ELSE s[n] + SumTo(s, n - 1)

\* math.log2 of every cell of a board of powers of two (0 for an empty cell,
\* whose logarithm the source never takes).
Logs(b) == List([i \in 1..4 |-> [j \in 1..4 |-> Log2(b[i][j])]])

\* _monotonicity(board): totals[0..3] are up, down, left and right.
monotonicity(b) ==
    LET lg == Logs(b)
        RowDiff(i, j) == IF b[i][j] > 0 /\ b[i][j + 1] > 0
                         THEN lg[i][j] - lg[i][j + 1] ELSE 0
        ColDiff(i, j) == IF b[j][i] > 0 /\ b[j + 1][i] > 0
                         THEN lg[j][i] - lg[j + 1][i] ELSE 0
        Pos(x) == IF x > 0 THEN x ELSE 0
        \* the n-th turn of "for i in range(4): for j in range(3)"
        I(n) == ((n - 1) \div 3) + 1
        J(n) == ((n - 1) % 3) + 1
        Up(n)    == Pos(ColDiff(I(n), J(n)))
        Down(n)  == Pos(0 - ColDiff(I(n), J(n)))
        Left(n)  == Pos(RowDiff(I(n), J(n)))
        Right(n) == Pos(0 - RowDiff(I(n), J(n)))
    IN  Max2(SumTo(List([n \in 1..12 |-> Up(n)]), 12),
             SumTo(List([n \in 1..12 |-> Down(n)]), 12))
          + Max2(SumTo(List([n \in 1..12 |-> Left(n)]), 12),
                 SumTo(List([n \in 1..12 |-> Right(n)]), 12))

\* _smoothness(board)
smoothness(b) ==
    LET lg == Logs(b)
        I(n) == ((n - 1) \div 4) + 1
        J(n) == ((n - 1) % 4) + 1
        Right(i, j) == IF j < 4 /\ b[i][Min2(j + 1, 4)] > 0
                       THEN Abs(lg[i][j] - lg[i][Min2(j + 1, 4)]) ELSE 0
        Below(i, j) == IF i < 4 /\ b[Min2(i + 1, 4)][j] > 0
                       THEN Abs(lg[i][j] - lg[Min2(i + 1, 4)][j]) ELSE 0
        Cell(n) == IF b[I(n)][J(n)] > 0
                   THEN Right(I(n), J(n)) + Below(I(n), J(n)) ELSE 0
    IN  0 - SumTo(List([n \in 1..16 |-> Cell(n)]), 16)

\* max(max(row) for row in board)
MaxTile(b) == CHOOSE v \in {b[i][j] : i \in Idx, j \in Idx} :
                 \A i \in Idx, j \in Idx : b[i][j] <= v

\* _evaluate(board), in thousands: every weight of the source is a multiple
\* of 1000 and every feature is an integer on a board of powers of two.
evaluate(b) ==
    LET empty == Len(get_empty_cells(b))
        w == IF empty > 10 THEN [empty |-> 150, mono |-> 3, smooth |-> 3]
             ELSE IF empty > 6 THEN [empty |-> 200, mono |-> 8, smooth |-> 2]
             ELSE [empty |-> 300, mono |-> 15, smooth |-> 1]
        max_tile == MaxTile(b)
        corners == {b[1][1], b[1][4], b[4][1], b[4][4]}
    IN  w.empty * (empty * empty)
          + w.mono * monotonicity(b)
          + w.smooth * smoothness(b)
          + (IF max_tile > 0 THEN 2 * Log2(max_tile) ELSE 0)
          + (IF max_tile \in corners THEN 5 ELSE 0)

\* random.sample(cells, k): k of the cells.  The sample the generator draws
\* is an input of the search; rnd selects the run of k cells that starts
\* after the first rnd ones, wrapping round.
Sample(cells, k, rnd) ==
    [n \in 1..k |-> cells[((rnd + n - 1) % Len(cells)) + 1]]

\* The cells a chance node expands, with the mid-game sample cut to one cell
\* (min(num_empty, 1) for min(num_empty, 6)).
SampledCellsNarrow(empty_cells, depth, rnd) ==
    LET num_empty == Len(empty_cells)
    IN  IF num_empty > 10 /\ depth <= 1
        THEN Sample(empty_cells, Min2(8, num_empty), rnd)
        ELSE IF num_empty > 6
        THEN Sample(empty_cells, Min2(num_empty, 1), rnd)
        ELSE empty_cells

\* The cells a chance node expands, with a sample drawn only when more than
\* 10 cells are empty and depth <= 1, and every empty cell otherwise.
SampledCellsShallowOnly(empty_cells, depth, rnd) ==
    LET num_empty == Len(empty_cells)
    IN  IF num_empty > 10 /\ depth <= 1
        THEN Sample(empty_cells, Min2(8, num_empty), rnd)
        ELSE empty_cells

\* The cells a chance node expands (_chance_node, lines 116-125).
SampledCells(empty_cells, depth, rnd) ==
    LET num_empty == Len(empty_cells)
    IN  IF num_empty > 10 /\ depth <= 1
        THEN Sample(empty_cells, Min2(8, num_empty), rnd)
        ELSE IF num_empty > 6
        THEN Sample(empty_cells, Min2(num_empty, 6), rnd)
        ELSE empty_cells

\* _expectimax, _max_node and _chance_node return the value of the node; the
\* operators return it with the number of nodes the call added to
\* self.nodes_explored.
RECURSIVE expectimax(_, _, _, _), MaxLoop(_, _, _, _, _, _), ChanceLoop(_, _, _, _, _, _)

\* return self._evaluate(game)
Evaluated(b, nodes) == [val |-> Num(evaluate(b)), nodes |-> nodes]

\* max_score = max(max_score, score): acc holds max_score (none: still -inf)
\* and the nodes counted so far.
MaxAcc(acc, score) ==
    [none  |-> FALSE,
     val   |-> IF acc.none THEN score.val ELSE MaxOf(acc.val, score.val),
     nodes |-> acc.nodes + score.nodes]

\* The loop of _max_node from the n-th available move on. max_score is
\* computed at each turn, before the next one: the count of nodes, never
\* negative, is read for that.
MaxLoop(b, available_moves, n, depth, rnd, acc) ==
    IF n > Len(available_moves) \/ acc.nodes < 0 THEN acc
    ELSE MaxLoop(b, available_moves, n + 1, depth, rnd,
                 MaxAcc(acc, expectimax(AfterMove(b, available_moves[n]),
                                        depth - 1, FALSE, rnd)))

\* _max_node, once the available moves are known.
MaxOver(b, available_moves, depth, rnd) ==
    IF available_moves = <<>>
    THEN Evaluated(b, 0)
    ELSE MaxLoop(b, available_moves, 1, depth, rnd,
                 [none |-> TRUE, val |-> Num(0), nodes |-> 0])

max_node(b, depth, rnd) == MaxOver(b, MoveList(b), depth, rnd)

\* expected_score += 0.9 * score_2 + 0.1 * score_4: acc holds expected_score,
\* in tenths, and the nodes counted so far.
ChanceAcc(acc, score_2, score_4) ==
    [val   |-> Plus(acc.val, Plus(Times(9, score_2.val), score_4.val)),
     nodes |-> acc.nodes + score_2.nodes + score_4.nodes]

\* The loop of _chance_node from the n-th sampled cell on. expected_score is
\* computed at each turn, before the next one: the count of nodes, never
\* negative, is read for that.
ChanceLoop(b, sampled_cells, n, depth, rnd, acc) ==
    IF n > Len(sampled_cells) \/ acc.nodes < 0 THEN acc
    ELSE ChanceLoop(b, sampled_cells, n + 1, depth, rnd,
                    ChanceAcc(acc,
                              expectimax(AfterPlace(b, sampled_cells[n], 2),
                                         depth - 1, TRUE, rnd),
                              expectimax(AfterPlace(b, sampled_cells[n], 4),
                                         depth - 1, TRUE, rnd)))

\* return expected_score / len(sampled_cells)
Averaged(acc, n) == [val |-> Over(acc.val, 10 * n), nodes |-> acc.nodes]

\* _chance_node, once the cells to expand are known.
ChanceOver(b, sampled_cells, depth, rnd) ==
    Averaged(ChanceLoop(b, sampled_cells, 1, depth, rnd, [val |-> Num(0), nodes |-> 0]),
             Len(sampled_cells))

chance_node(b, depth, rnd) ==
    LET empty_cells == get_empty_cells(b)
    IN  IF empty_cells = <<>>
        THEN Evaluated(b, 0)
        ELSE ChanceOver(b, SampledCells(empty_cells, depth, rnd), depth, rnd)

\* self.nodes_explored += 1, at the start of _expectimax
Counted(r) == [val |-> r.val, nodes |-> 1 + r.nodes]

expectimax(b, depth, is_max_node, rnd) ==
    IF depth = 0 \/ GameOver(b)
    THEN Evaluated(b, 1)
    ELSE Counted(IF is_max_node THEN max_node(b, depth, rnd)
                 ELSE chance_node(b, depth, rnd))

\* None, where a direction is expected
NoMove == -1

\* One turn of the loop of get_best_move with score >= best_score in place
\* of score > best_score: a later move of equal score replaces the best move.
BestAccLast(acc, m, score) ==
    IF acc.none \/ ~Less(score.val, acc.best_score)
    THEN [best_move |-> m, none |-> FALSE, best_score |-> score.val,
          nodes |-> acc.nodes + score.nodes, scores |-> Append(acc.scores, score.val)]
    ELSE [acc EXCEPT !.nodes = @ + score.nodes, !.scores = Append(@, score.val)]

\* if score > best_score: best_score = score; best_move = move.  acc holds
\* best_move, best_score (none: still -inf), self.nodes_explored and, for
\* the record, the scores of the moves tried so far.
BestAcc(acc, m, score) ==
    IF acc.none \/ Less(acc.best_score, score.val)
    THEN [best_move |-> m, none |-> FALSE, best_score |-> score.val,
          nodes |-> acc.nodes + score.nodes, scores |-> Append(acc.scores, score.val)]
    ELSE [acc EXCEPT !.nodes = @ + score.nodes, !.scores = Append(@, score.val)]

\* The loop of get_best_move from the n-th available move on.
RECURSIVE BestLoop(_, _, _, _, _, _)
BestLoop(b, available_moves, n, depth, rnd, acc) ==
    IF n > Len(available_moves) THEN acc
    ELSE BestLoop(b, available_moves, n + 1, depth, rnd,
                  BestAcc(acc, available_moves[n],
                          expectimax(AfterMove(b, available_moves[n]),
                                     depth - 1, FALSE, rnd)))

\* get_best_move with best_move = 0 in place of best_move = None before the
\* loop, and without the early return.
BestOverDefaultUp(b, available_moves, depth, rnd) ==
    BestLoop(b, available_moves, 1, depth, rnd,
             [best_move |-> 0, none |-> TRUE, best_score |-> Num(0), nodes |-> 0,
              scores |-> <<>>])

\* get_best_move, once the available moves are known: with none it returns
\* None at once.
BestOver(b, available_moves, depth, rnd) ==
    BestLoop(b, available_moves, 1, depth, rnd,
             [best_move |-> NoMove, none |-> TRUE, best_score |-> Num(0), nodes |-> 0,
              scores |-> <<>>])

\* get_best_move(game) with the loop over range(4) in place of the available
\* moves.
BestOfAllDirections(b, depth, rnd) == BestOver(b, <<0, 1, 2, 3>>, depth, rnd)

\* get_best_move(game) of an agent of the given depth: best_move is the move
\* returned (NoMove for None) and nodes is self.nodes_explored after the call.
get_best_move(b, depth, rnd) == BestOver(b, MoveList(b), depth, rnd)

--------------------------------------------------------------------------
(* What a search does to the heap.  The nodes a search visits do not depend
   on the values it computes, so the same calls are followed here on the
   heap of the caller, with the game the caller passed: every clone() is made
   on that heap and every move and write goes through it.  Each operator
   returns the heap the call leaves and the nodes it counted. *)

\* An object no name refers to any more is freed: the objects made since the
\* heap was h0 are dropped when the names that referred to them are gone,
\* unless a list that was there before has come to hold one of them.
Release(h0, h) ==
    IF \A k \in 1..Len(h0.lists) : \A i \in Idx : h.lists[k][i] <= Len(h0.rows)
    THEN [lists |-> SubSeq(h.lists, 1, Len(h0.lists)),
          rows  |-> SubSeq(h.rows, 1, Len(h0.rows))]
    ELSE h

RECURSIVE expectimax_effect(_, _, _, _, _, _)

\* One child of a node has been searched: e is what its search left; its
\* test_game is dropped.
Explored(acc, e) ==
    [heap   |-> Release(acc.heap, e.heap),
     nodes  |-> acc.nodes + e.nodes,
     raised |-> e.raised,
     seen   |-> acc.seen \cup e.seen]

\* self._expectimax(test_game, depth, is_max_node), for the record r that
\* test_game.move(move) or the write to test_game.board left; stack is the
\* number of _expectimax calls in progress, this one counted.
ExploredBelow(r, depth, is_max_node, rnd, stack) ==
    expectimax_effect(r.heap, r.game, depth, is_max_node, rnd, stack)

\* The loop over the available moves, of get_best_move and of _max_node,
\* with the move made on the game itself (test_game = game in place of
\* test_game = game.clone()).
RECURSIVE MovesEffectOnGame(_, _, _, _, _, _, _)
MovesEffectOnGame(g, available_moves, n, depth, rnd, stack, acc) ==
    IF n > Len(available_moves) \/ acc.raised THEN acc
    ELSE MovesEffectOnGame(g, available_moves, n + 1, depth, rnd, stack,
             Explored(acc, ExploredBelow(move(acc.heap, g, available_moves[n]),
                                         depth - 1, FALSE, rnd, stack + 1)))

\* The loop over the available moves, of get_best_move (lines 44-54) and of
\* _max_node (lines 95-101), from the n-th move on.  An exception raised in
\* a child ends the loop.
RECURSIVE MovesEffect(_, _, _, _, _, _, _)
MovesEffect(g, available_moves, n, depth, rnd, stack, acc) ==
    IF n > Len(available_moves) \/ acc.raised THEN acc
    ELSE MovesEffect(g, available_moves, n + 1, depth, rnd, stack,
             Explored(acc, ExploredBelow(MoveClone(clone(acc.heap, g), available_moves[n]),
                                         depth - 1, FALSE, rnd, stack + 1)))

\* available_moves = game.get_available_moves(), then the loop: a is what
\* get_available_moves returned on heap h.
MovesEffectOver(h, g, a, depth, rnd, stack) ==
    MovesEffect(g, a.moves, 1, depth, rnd, stack,
                [heap |-> Release(h, a.heap), nodes |-> 0, raised |-> FALSE, seen |-> {}])

max_node_effect(h, g, depth, rnd, stack) ==
    MovesEffectOver(h, g, get_available_moves(h, g), depth, rnd, stack)

\* test_game = game.clone(); test_game.board[i][j] = v;
\* self._expectimax(test_game, depth - 1, True)
PlaceEffect(g, cell, v, depth, rnd, stack, acc) ==
    IF acc.raised THEN acc
    ELSE Explored(acc, ExploredBelow(WriteClone(clone(acc.heap, g), cell, v),
                                     depth - 1, TRUE, rnd, stack + 1))

\* The loop of _chance_node from the n-th sampled cell on: a clone with a 2,
\* then a clone with a 4, for each cell.
RECURSIVE CellsEffect(_, _, _, _, _, _, _)
CellsEffect(g, sampled_cells, n, depth, rnd, stack, acc) ==
    IF n > Len(sampled_cells) \/ acc.raised THEN acc
    ELSE CellsEffect(g, sampled_cells, n + 1, depth, rnd, stack,
                     PlaceEffect(g, sampled_cells[n], 4, depth, rnd, stack,
                                 PlaceEffect(g, sampled_cells[n], 2, depth, rnd, stack, acc)))

chance_node_effect(h, g, depth, rnd, stack) ==
    CellsEffect(g, SampledCells(get_empty_cells(Grid(h, g)), depth, rnd), 1, depth, rnd,
                stack, [heap |-> h, nodes |-> 0, raised |-> FALSE, seen |-> {}])

\* self.nodes_explored += 1, at the start of _expectimax: the node is
\* entered with the given remaining depth, as the stack-th call in progress.
CountedEffect(e, depth, stack) ==
    [e EXCEPT !.nodes = 1 + @, !.seen = {<<stack, depth>>} \cup @]

\* _expectimax past the test of depth: o is what game.is_game_over() returned
\* on heap h.
BelowEffect(h, g, o, depth, is_max_node, rnd, stack) ==
    IF o.over THEN [heap |-> Release(h, o.heap), nodes |-> 1, raised |-> FALSE,
                    seen |-> {<<stack, depth>>}]
    ELSE CountedEffect(IF is_max_node
                       THEN max_node_effect(Release(h, o.heap), g, depth, rnd, stack)
                       ELSE chance_node_effect(Release(h, o.heap), g, depth, rnd, stack),
                       depth, stack)

\* _expectimax with the test depth < 0 in place of depth == 0: a node of
\* remaining depth 0 is expanded.
ExpectimaxEffectPastZero(h, g, depth, is_max_node, rnd, stack) ==
    IF stack > RecursionLimit THEN [heap |-> h, nodes |-> 0, raised |-> TRUE, seen |-> {}]
    ELSE IF depth < 0 THEN [heap |-> h, nodes |-> 1, raised |-> FALSE,
                            seen |-> {<<stack, depth>>}]
    ELSE BelowEffect(h, g, is_game_over(h, g), depth, is_max_node, rnd, stack)

\* _expectimax.  The interpreter raises RecursionError in place of a call
\* that would nest deeper than its recursion limit; nothing in the agent
\* catches it.
expectimax_effect(h, g, depth, is_max_node, rnd, stack) ==
    IF stack > RecursionLimit THEN [heap |-> h, nodes |-> 0, raised |-> TRUE, seen |-> {}]
    ELSE IF depth = 0 THEN [heap |-> h, nodes |-> 1, raised |-> FALSE,
                            seen |-> {<<stack, depth>>}]
    ELSE BelowEffect(h, g, is_game_over(h, g), depth, is_max_node, rnd, stack)

\* get_best_move(game) on the heap of the caller
get_best_move_effect(h, g, depth, rnd) ==
    MovesEffectOver(h, g, get_available_moves(h, g), depth, rnd, 0)

--------------------------------------------------------------------------
(* The state machine *)

NoRet == [op |-> "new"]

\* heuristic_weights=None; a weight vector w that is given is <<w>>.
NoWeights == <<>>

\* No ExpectimaxAgent has been constructed.
NoAgent ==
    [depth |-> 0, heuristic_weights |-> NoWeights, nodes_explored |-> 0, time_taken |-> 0]

\* Install the heap and the games an operation left behind.
Install(h, g, cs) ==
    LET c == Collect(h, <<g>> \o cs)
    IN  /\ heap' = c.heap
        /\ game' = c.games[1]
        /\ clones' = Tail(c.games)

\* The state after Game2048(): two add_random_tile() calls on the empty grid.
NewGame(c1, v1, c2, v2) ==
    LET h0 == AllocGrid(EmptyHeap, [i \in Idx |-> Zeros(Size)])
        g0 == [board |-> 1, score |-> 0]
        h1 == add_random_tile(h0, g0, c1, v1)
    IN  /\ c2 # c1
        /\ heap = add_random_tile(h1, g0, c2, v2)
        /\ game = g0

Init ==
    /\ \E c1 \in Idx \X Idx, c2 \in Idx \X Idx, v1 \in {2, 4}, v2 \in {2, 4} :
          NewGame(c1, v1, c2, v2)
    /\ clones = <<>>
    /\ ret = NoRet
    /\ steps = 0
    /\ agent = NoAgent
    /\ rng = 0
    /\ hist = <<>>

\* game.move(direction)
Move(direction) ==
    /\ LET r == move(heap, game, direction)
       IN  /\ Install(r.heap, r.game, clones)
           /\ ret' = [op |-> "move", dir |-> direction, moved |-> r.moved,
                      points |-> r.points]
    /\ steps' = steps + 1
    /\ UNCHANGED <<agent, rng, hist>>

\* game.add_random_tile()
AddRandomTile ==
    /\ LET empty_cells == get_empty_cells(Grid(heap, game))
       IN  IF empty_cells # <<>>
           THEN \E k \in 1..Len(empty_cells), v \in {2, 4} :
                   /\ Install(add_random_tile(heap, game, empty_cells[k], v), game, clones)
                   /\ ret' = [op |-> "add_random_tile", ok |-> TRUE]
           ELSE /\ UNCHANGED <<heap, game, clones>>
                /\ ret' = [op |-> "add_random_tile", ok |-> FALSE]
    /\ steps' = steps + 1
    /\ UNCHANGED <<agent, rng, hist>>

\* game.is_game_over()
IsGameOver ==
    /\ LET r == is_game_over(heap, game)
       IN  /\ Install(r.heap, game, clones)
           /\ ret' = [op |-> "is_game_over", over |-> r.over]
    /\ steps' = steps + 1
    /\ UNCHANGED <<agent, rng, hist>>

\* game.get_available_moves()
GetAvailableMoves ==
    /\ LET r == get_available_moves(heap, game)
       IN  /\ Install(r.heap, game, clones)
           /\ ret' = [op |-> "get_available_moves", moves |-> r.moves]
    /\ steps' = steps + 1
    /\ UNCHANGED <<agent, rng, hist>>

\* test_game = game.clone()
Clone ==
    /\ ret.op \in {"new", "move"}
    /\ LET r == clone(heap, game)
       IN  Install(r.heap, game, <<r.game>>)
    /\ ret' = [op |-> "clone"]
    /\ UNCHANGED <<steps, agent, rng, hist>>

\* test_game.move(direction), on a clone just made (get_available_moves,
\* get_best_move and _max_node use a clone so)
CloneMove(direction) ==
    /\ ret.op = "clone"
    /\ LET r == move(heap, clones[1], direction)
       IN  /\ Install(r.heap, game, <<r.game>>)
           /\ ret' = [op |-> "clone_move", dir |-> direction, moved |-> r.moved,
                      points |-> r.points]
    /\ UNCHANGED <<steps, agent, rng, hist>>

\* test_game.board[i][j] = v, on a clone just made, for an empty cell (i, j)
\* and v = 2 or 4 (_chance_node uses a clone so)
CloneWrite ==
    /\ ret.op = "clone"
    /\ LET empty_cells == get_empty_cells(Grid(heap, clones[1]))
       IN  \E k \in 1..Len(empty_cells), v \in {2, 4} :
              Install(SetCell(heap, clones[1], empty_cells[k][1], empty_cells[k][2], v),
                      game, clones)
    /\ ret' = [op |-> "clone_write"]
    /\ UNCHANGED <<steps, agent, rng, hist>>

\* agent = ExpectimaxAgent(depth): the depths are tried in increasing order
\* on the same board (compare_depths in test.py takes agents of increasing
\* depth).
NewAgent ==
    /\ ret.op \in {"new", "get_best_move"}
    /\ agent.depth < MaxDepth
    /\ agent' = [depth |-> agent.depth + 1, heuristic_weights |-> NoWeights,
                 nodes_explored |-> 0, time_taken |-> 0]
    /\ ret' = [op |-> "ExpectimaxAgent"]
    /\ UNCHANGED <<heap, game, clones, steps, rng, hist>>

\* agent = ExpectimaxAgent(depth), for a depth the caller chooses: __init__
\* stores the depth it is given.
NewShallowAgent(depth) ==
    /\ ret.op = "new"
    /\ agent' = [depth |-> depth, heuristic_weights |-> NoWeights, nodes_explored |-> 0,
                 time_taken |-> 0]
    /\ ret' = [op |-> "ExpectimaxAgent"]
    /\ UNCHANGED <<heap, game, clones, steps, rng, hist>>

\* agent = ExpectimaxAgent(depth=3, heuristic_weights=w), as the ablation
\* experiment of runner.py constructs it: __init__ stores the weights.
NewAgentWith(w) ==
    /\ ret.op = "new"
    /\ agent' = [depth |-> 3, heuristic_weights |-> <<w>>, nodes_explored |-> 0,
                 time_taken |-> 0]
    /\ ret' = [op |-> "ExpectimaxAgent"]
    /\ UNCHANGED <<heap, game, clones, steps, rng, hist>>

\* agent._evaluate(game.board), the evaluation the search calls at its
\* leaves: it reads the board alone.
Evaluate ==
    /\ ret.op = "ExpectimaxAgent"
    /\ ret' = [op |-> "evaluate", value |-> evaluate(Grid(heap, game))]
    /\ UNCHANGED <<heap, game, clones, steps, agent, rng, hist>>

\* time.time() - start_time at the end of a call, in ticks of the clock: the
\* call has taken some time.
Elapsed == 1..MaxElapsed

\* get_best_move returns: r is what the search computed and visited the
\* number of nodes it entered.  self.time_taken is assigned after the loop
\* (line 56), so not when None is returned before it (line 39).  ret records
\* the time the call took.
Returned(r, visited) ==
    /\ \E elapsed \in Elapsed :
          /\ agent' = IF r.none
                      THEN [agent EXCEPT !.nodes_explored = r.nodes]
                      ELSE [agent EXCEPT !.nodes_explored = r.nodes,
                                         !.time_taken = elapsed]
          /\ ret' = [op |-> "get_best_move", move |-> r.best_move, raised |-> FALSE,
                     scores |-> r.scores, visited |-> visited, elapsed |-> elapsed]
    /\ hist' = Append(hist, r.nodes)

\* The end of get_best_move(game): e is what the search left on the heap.
\* An exception raised in the search leaves get_best_move with it, and
\* self.nodes_explored as it stood.
Searched(e) ==
    /\ Install(e.heap, game, clones)
    /\ IF e.raised
       THEN /\ agent' = [agent EXCEPT !.nodes_explored = e.nodes]
            /\ \E elapsed \in Elapsed :
                  ret' = [op |-> "get_best_move", move |-> NoMove, raised |-> TRUE,
                          scores |-> <<>>, visited |-> e.nodes, elapsed |-> elapsed]
            /\ UNCHANGED hist
       ELSE Returned(get_best_move(Grid(heap, game), agent.depth, rng), e.nodes)

\* The end of _chance_node(game, depth): e is what the node left on the heap.
Expanded(e, depth, sampled_cells) ==
    /\ Install(e.heap, game, clones)
    /\ ret' = [op |-> "chance_node", depth |-> depth, cells |-> sampled_cells,
               nodes |-> e.nodes]

\* agent._chance_node(game, depth), as _expectimax calls it on the board
\* after a move: ret records the cells the node expanded and the nodes
\* counted below it.
ChanceNode(depth) ==
    /\ Expanded(chance_node_effect(heap, game, depth, rng, 1), depth,
                SampledCells(get_empty_cells(Grid(heap, game)), depth, rng))
    /\ rng' = (rng + 1) % NumSeeds
    /\ UNCHANGED <<steps, agent, hist>>

\* agent.get_stats(): nodes_per_second is the pair of the numbers divided.
get_stats(a) ==
    [nodes_explored   |-> a.nodes_explored,
     time_taken       |-> a.time_taken,
     nodes_per_second |-> IF a.time_taken > 0 THEN <<a.nodes_explored, a.time_taken>>
                          ELSE <<0, 1>>]

\* The end of _expectimax(game, depth, is_max_node): e is what the node left
\* on the heap and r the value it returns.
Visited(e, r, depth, is_max_node) ==
    /\ Install(e.heap, game, clones)
    /\ agent' = [agent EXCEPT !.nodes_explored = @ + e.nodes]
    /\ ret' = [op |-> "expectimax", depth |-> depth, is_max_node |-> is_max_node,
               value |-> r.val, nodes |-> e.nodes, seen |-> e.seen]

\* agent._expectimax(game, depth, is_max_node), the first _expectimax call in
\* progress: ret records the value returned, the nodes counted and, for each
\* node entered, its place in the stack of calls and its remaining depth.
Expectimax(depth, is_max_node) ==
    /\ Visited(expectimax_effect(heap, game, depth, is_max_node, rng, 1),
               expectimax(Grid(heap, game), depth, is_max_node, rng), depth, is_max_node)
    /\ rng' = (rng + 1) % NumSeeds
    /\ UNCHANGED <<steps, hist>>

\* agent.get_best_move(game).  The call draws its samples from the random
\* source as it stands and leaves the source advanced; hist records the
\* nodes explored at each depth tried so far.
GetBestMove ==
    /\ ret.op = "ExpectimaxAgent"
    /\ Searched(get_best_move_effect(heap, game, agent.depth, rng))
    /\ rng' = (rng + 1) % NumSeeds
    /\ UNCHANGED steps

--------------------------------------------------------------------------
(* A game played from its construction *)

Next ==
    \/ \E direction \in Directions : steps < MaxSteps /\ Move(direction)
    \/ steps < MaxSteps /\ AddRandomTile

Spec == Init /\ [][Next]_vars

--------------------------------------------------------------------------
(* One call on a given board.  The boards are those with rows a, b, a, b,
   for all rows a and b of tiles up to 2^MaxExp, with a tile somewhere: a
   game has two tiles when it is constructed and no call takes the last tile
   off the board.  The board Scenario, a new game's two tiles in its first
   and last rows, is one more. *)

Tiles == {0} \cup {Pow2(k) : k \in 1..MaxExp}

Rows == Tiles \X Tiles \X Tiles \X Tiles

InitOn(b) ==
    /\ heap = AllocGrid(EmptyHeap, b)
    /\ game = [board |-> 1, score |-> 0]
    /\ clones = <<>>
    /\ ret = NoRet
    /\ steps = 0
    /\ agent = NoAgent
    /\ hist = <<>>

NoTiles == <<0, 0, 0, 0>>

Scenario == <<<<2, 0, 0, 0>>, NoTiles, NoTiles, <<0, 2, 0, 0>>>>

InitBoard ==
    /\ \/ \E a \in Rows, b \in Rows :
             /\ <<a, b>> # <<NoTiles, NoTiles>>
             /\ InitOn(<<a, b, a, b>>)
       \/ InitOn(Scenario)
    /\ rng = 0

NextBoard ==
    \/ \E direction \in Directions : ret = NoRet /\ Move(direction)
    \/ ret = NoRet /\ IsGameOver
    \/ ret = NoRet /\ GetAvailableMoves

SpecBoard == InitBoard /\ [][NextBoard]_vars

--------------------------------------------------------------------------
(* Clones of a game, new or after its first move *)

NextClone ==
    \/ \E direction \in Directions : ret = NoRet /\ Move(direction)
    \/ Clone
    \/ \E direction \in Directions : CloneMove(direction)
    \/ CloneWrite

SpecClone == Init /\ [][NextClone]_vars

--------------------------------------------------------------------------
(* The agent on a given board.  The boards are those with rows a, a', a, a'
   where a is a row as a move to the right leaves it (its tiles, 2s and 4s,
   after its empty cells) and a' is a with its 2s and 4s exchanged, and the
   transposes of these boards. *)

PackedRows == {a \in {0, 2, 4} \X {0, 2, 4} \X {0, 2, 4} \X {0, 2, 4} :
                  /\ a # NoTiles
                  /\ \A j \in 1..3 : a[j] # 0 => a[j + 1] # 0}

Exchanged(a) == List([j \in Idx |-> IF a[j] = 0 THEN 0 ELSE 6 - a[j]])

Striped(a) == <<a, Exchanged(a), a, Exchanged(a)>>

InitAgent ==
    /\ \E a \in PackedRows, transposed \in BOOLEAN :
          InitOn(IF transposed THEN TransposeGrid(Striped(a)) ELSE Striped(a))
    /\ rng = 0

NextAgent ==
    \/ NewAgent
    \/ GetBestMove

SpecAgent == InitAgent /\ [][NextAgent]_vars

--------------------------------------------------------------------------
(* An agent of depth 0 or -1 on a given board *)

NextShallow ==
    \/ \E depth \in (-1)..0 : NewShallowAgent(depth)
    \/ GetBestMove

SpecShallow == InitAgent /\ [][NextShallow]_vars

--------------------------------------------------------------------------
(* Calls of a caller that passes any direction, and tiles added until the
   board is full.  The boards are the boards a, a', a, a' of the agent, and
   these boards with their last cell emptied: a full board then has one empty
   cell. *)

Emptied(b) == [b EXCEPT ![Size][Size] = 0]

InitCalls ==
    /\ \E a \in PackedRows, emptied \in BOOLEAN :
          InitOn(IF emptied THEN Emptied(Striped(a)) ELSE Striped(a))
    /\ rng = 0

NextCalls ==
    \/ \E direction \in (-1)..4 : ret = NoRet /\ Move(direction)
    \/ steps < MaxSteps /\ ret.op # "move" /\ AddRandomTile

SpecCalls == InitCalls /\ [][NextCalls]_vars

--------------------------------------------------------------------------
(* One turn of a game loop on a given board: a move in some direction and,
   if it moved, the tile added after it (runner.py lines 37-39).  The boards
   are those of the calls above and their transposes. *)

InitTurn ==
    /\ \E a \in PackedRows, emptied \in BOOLEAN, transposed \in BOOLEAN :
          InitOn(IF transposed
                 THEN TransposeGrid(IF emptied THEN Emptied(Striped(a)) ELSE Striped(a))
                 ELSE IF emptied THEN Emptied(Striped(a)) ELSE Striped(a))
    /\ rng = 0

NextTurn ==
    \/ \E direction \in Directions : ret = NoRet /\ Move(direction)
    \/ ret.op = "move" /\ ret.moved /\ AddRandomTile

SpecTurn == InitTurn /\ [][NextTurn]_vars

--------------------------------------------------------------------------
(* One agent asked for a move turn after turn: the caller makes the move the
   agent returned, adds a tile and asks again, without asking the game
   whether it is over. *)

\* game.move(move), for the move the agent returned
PlayMove ==
    /\ ret.op = "get_best_move"
    /\ ret.move # NoMove
    /\ steps < MaxSteps
    /\ Move(ret.move)

\* if moved: game.add_random_tile()
PlayTile ==
    /\ ret.op = "move"
    /\ ret.moved
    /\ AddRandomTile

\* agent.get_best_move(game), by the agent of the turn before
GetNextMove ==
    /\ ret.op = "add_random_tile"
    /\ Searched(get_best_move_effect(heap, game, agent.depth, rng))
    /\ rng' = (rng + 1) % NumSeeds
    /\ UNCHANGED steps

\* The boards have a row of tiles, or of empty cells then tiles, on top of
\* rows in which 2s and 4s alternate, along the rows and down the columns.
Checkered == {<<2, 4, 2, 4>>, <<4, 2, 4, 2>>}

InitStats ==
    /\ \E r \in PackedRows, a \in Checkered : InitOn(<<r, a, Exchanged(a), a>>)
    /\ rng = 0

NextStats ==
    \/ \E depth \in 1..(MaxDepth - 2) : NewShallowAgent(depth)
    \/ GetBestMove
    \/ PlayMove
    \/ PlayTile
    \/ GetNextMove

SpecStats == InitStats /\ [][NextStats]_vars

--------------------------------------------------------------------------
(* The game loop of run_single_game (runner.py lines 28-51; test.py and
   demo.py have the same loop), from a given board: steps is its counter
   moves, and ret.op tells where the loop stands. *)

\* while not game.is_game_over() and moves < max_moves: at the start, after
\* the tile of an iteration, or after a move that did not move.
WhileTested(r) ==
    /\ Install(r.heap, game, clones)
    /\ ret' = [op |-> "while", over |-> r.over, go |-> ~r.over /\ steps < MaxMoves]

While ==
    /\ \/ ret.op \in {"ExpectimaxAgent", "add_random_tile"}
       \/ ret.op = "move" /\ ~ret.moved
    /\ WhileTested(is_game_over(heap, game))
    /\ UNCHANGED <<steps, agent, rng, hist>>

\* move = agent.get_best_move(game), in the body of the loop
LoopGetBestMove ==
    /\ ret.op = "while"
    /\ ret.go
    /\ Searched(get_best_move_effect(heap, game, agent.depth, rng))
    /\ rng' = (rng + 1) % NumSeeds
    /\ UNCHANGED steps

\* moved, points = game.move(move), which leaves the counter as it is
LoopMoved(r) ==
    /\ Install(r.heap, r.game, clones)
    /\ ret' = [op |-> "move", dir |-> ret.move, moved |-> r.moved, points |-> r.points]

LoopMove ==
    /\ ret.op = "get_best_move"
    /\ ~ret.raised
    /\ ret.move # NoMove
    /\ LoopMoved(move(heap, game, ret.move))
    /\ UNCHANGED <<steps, agent, rng, hist>>

\* The loop has ended, by its test or by break when the move is None: the
\* result is built.
Result ==
    /\ \/ ret.op = "while" /\ ~ret.go
       \/ ret.op = "get_best_move" /\ ~ret.raised /\ ret.move = NoMove
    /\ ret' = [op |-> "result", final_score |-> game.score,
               max_tile |-> MaxTile(Grid(heap, game)), moves |-> steps]
    /\ UNCHANGED <<heap, game, clones, steps, agent, rng, hist>>

NextLoop ==
    \/ NewShallowAgent(1)
    \/ While
    \/ LoopGetBestMove
    \/ LoopMove
    \/ PlayTile
    \/ Result

SpecLoop == InitStats /\ [][NextLoop]_vars

\* The loop has a next step: the guard of one of its actions holds.  (A
\* search that raised has ended the program.)
LoopCanStep ==
    \/ ret.op \in {"new", "ExpectimaxAgent", "while", "move", "add_random_tile"}
    \/ ret.op = "get_best_move" /\ ~ret.raised

\* The loop is one thread of control: it takes its next step as long as it
\* has one.  This is WF_vars(NextLoop) with ENABLED <<NextLoop>>_vars written
\* as the guards of the actions.
SpecLoopFair == SpecLoop /\ ([]<>~LoopCanStep \/ []<><<NextLoop>>_vars)

--------------------------------------------------------------------------
(* An agent given a weight vector, and its evaluation of a given board.  The
   vectors are the vector of zeros and the vector of ones. *)

WeightVector(x) ==
    [k \in {"empty_tiles", "monotonicity", "smoothness", "max_tile", "corner_bonus"} |-> x]

NextWeights ==
    \/ \E x \in 0..1 : NewAgentWith(WeightVector(x))
    \/ Evaluate

SpecWeights == InitAgent /\ [][NextWeights]_vars

--------------------------------------------------------------------------
(* One chance node on a given board, at each remaining depth *)

NextChance ==
    \E depth \in 1..MaxDepth : ret = NoRet /\ ChanceNode(depth)

SpecChance == InitAgent /\ [][NextChance]_vars

--------------------------------------------------------------------------
(* One node of a search on a given board, decision or chance, at each
   remaining depth a search of depth 1..MaxDepth passes to _expectimax *)

NextNode ==
    \E depth \in 0..(MaxDepth - 1), is_max_node \in BOOLEAN :
        ret = NoRet /\ Expectimax(depth, is_max_node)

SpecNode == InitAgent /\ [][NextNode]_vars

--------------------------------------------------------------------------
(* Properties *)

board == Grid(heap, game)

RECURSIVE IsPowerOfTwo(_)
IsPowerOfTwo(v) == v = 1 \/ (v > 1 /\ v % 2 = 0 /\ IsPowerOfTwo(v \div 2))

\* The i-th line of grid b for a move in direction d, from the side the tiles
\* move to: rows from the left for LEFT (3) and from the right for RIGHT (1),
\* columns from the top for UP (0) and from the bottom for DOWN (2).
Line(b, d, i) ==
    IF d = 3 THEN <<b[i][1], b[i][2], b[i][3], b[i][4]>>
    ELSE IF d = 1 THEN <<b[i][4], b[i][3], b[i][2], b[i][1]>>
    ELSE IF d = 0 THEN <<b[1][i], b[2][i], b[3][i], b[4][i]>>
    ELSE <<b[4][i], b[3][i], b[2][i], b[1][i]>>

\* C1: in every board reachable from a new game by move(direction) calls,
\* direction in 0..3, and add_random_tile() calls, every non-zero cell holds a
\* power of two that is at least 2.
C1_PowersOfTwo ==
    \A i \in Idx, j \in Idx :
        board[i][j] # 0 => board[i][j] >= 2 /\ IsPowerOfTwo(board[i][j])

\* A board with a tile that a merge made, after a tile was added.
C1_Witness ==
    /\ ret.op = "add_random_tile"
    /\ game.score > 0
    /\ \E i \in Idx, j \in Idx : board[i][j] = 8

\* C2: across any sequence of move calls on one game, changing the grid or
\* not, with add_random_tile() calls between them, the score after each call
\* is greater than or equal to the score before it.
C2_ScoreNeverDecreases == [][game'.score >= game.score]_vars

\* A move that did not change the grid, on a game that has scored before.
C2_Witness ==
    /\ ret.op = "move"
    /\ ~ret.moved
    /\ game.score > 0

\* The tiles new, in order, come from the tiles old, in order, each from one
\* tile or from two equal neighbours, merged: no tile of new comes from more
\* than two tiles of old.
RECURSIVE MergedOnce(_, _)
MergedOnce(old, new) ==
    IF new = <<>> THEN old = <<>>
    ELSE \/ /\ Len(old) >= 1
            /\ new[1] = old[1]
            /\ MergedOnce(Tail(old), Tail(new))
         \/ /\ Len(old) >= 2
            /\ old[1] = old[2]
            /\ new[1] = 2 * old[1]
            /\ MergedOnce(Tail(Tail(old)), Tail(new))

\* The board of four rows 2, 2, 2, 2 between rows without tiles.
TwoRowsOfTwos == <<<<2, 2, 2, 2>>, NoTiles, <<2, 2, 2, 2>>, NoTiles>>

\* C3: a tile merges at most once per move: in every line of a move, in each
\* of the four directions, each tile after the move is one tile from before
\* it or the merge of two equal neighbours, so a tile made by a merge is not
\* merged again; a line 2, 2, 2, 2 becomes 4, 4, 0, 0, and a row 2, 2, 2, 2
\* slid left gains 8 points.
C3_MergeOnce ==
    [][ret'.op = "move" =>
          /\ \A i \in Idx :
                /\ MergedOnce(Compress(Line(board, ret'.dir, i)),
                              Compress(Line(board', ret'.dir, i)))
                /\ Line(board, ret'.dir, i) = <<2, 2, 2, 2>>
                      => Line(board', ret'.dir, i) = <<4, 4, 0, 0>>
          /\ board = TwoRowsOfTwos /\ ret'.dir = 3 => ret'.points = 2 * 8]_vars

\* Rows 2, 2, 2, 2 after a move to the left.
C3_Witness ==
    /\ ret = [op |-> "move", dir |-> 3, moved |-> TRUE, points |-> 16]
    /\ board = <<<<4, 4, 0, 0>>, NoTiles, <<4, 4, 0, 0>>, NoTiles>>

\* A tile of grid b can slide or merge in direction d: in some line an empty
\* cell comes before a tile, or two neighbours are equal tiles.
CanAct(b, d) ==
    \E i \in Idx, j \in 1..(Size - 1) :
        \/ Line(b, d, i)[j] = 0 /\ Line(b, d, i)[j + 1] # 0
        \/ Line(b, d, i)[j] # 0 /\ Line(b, d, i)[j] = Line(b, d, i)[j + 1]

\* C4: for every board and every direction in which no tile can slide or
\* merge, move(direction) returns changed = false and 0 points and leaves
\* every cell of the grid and the score as they were: no tile is placed.
C4_NoOpMove ==
    [][ret'.op = "move" /\ ~CanAct(board, ret'.dir) =>
          /\ ~ret'.moved
          /\ ret'.points = 0
          /\ board' = board
          /\ game'.score = game.score]_vars

\* A board with tiles and empty cells after a move in a direction in which
\* nothing can slide or merge.
C4_Witness ==
    /\ ret.op = "move"
    /\ ~CanAct(board, ret.dir)
    /\ ~ret.moved
    /\ \E i \in Idx, j \in Idx : board[i][j] = 0
    /\ \E i \in Idx, j \in Idx : board[i][j] = 4

\* C5: clone() returns a game whose grid and score equal the original's, and
\* a move(d) on the clone, for every direction d, or a write to a cell of the
\* clone, leaves the grid and the score of the original as they were.
C5_CloneIndependent ==
    [][/\ ret'.op = "clone" =>
             /\ Grid(heap', clones'[1]) = board
             /\ clones'[1].score = game.score
             /\ board' = board
             /\ game'.score = game.score
       /\ ret'.op \in {"clone_move", "clone_write"} =>
             /\ board' = board
             /\ game'.score = game.score]_vars

\* A clone of a game that has scored, after a write to a cell of the clone.
C5_Witness ==
    /\ ret.op = "clone_write"
    /\ game.score > 0
    /\ clones[1].score = game.score
    /\ Grid(heap, clones[1]) # board

\* Every cell of grid b holds a tile.
Full(b) == \A i \in Idx, j \in Idx : b[i][j] # 0

\* No two cells of grid b next to each other in a row or in a column hold the
\* same value.
NoEqualNeighbours(b) ==
    /\ \A i \in Idx, j \in 1..(Size - 1) : b[i][j] # b[i][j + 1]
    /\ \A i \in 1..(Size - 1), j \in Idx : b[i][j] # b[i + 1][j]

\* C6: for every completely filled 4x4 grid in which no two horizontally or
\* vertically adjacent cells hold the same value, is_game_over() returns true.
C6_FullBoardIsOver ==
    ret.op = "is_game_over" /\ Full(board) /\ NoEqualNeighbours(board) => ret.over

\* is_game_over() has returned on a full grid without equal neighbours.
C6_Witness ==
    /\ ret.op = "is_game_over"
    /\ Full(board)
    /\ NoEqualNeighbours(board)
    /\ ret.over

\* C7: for every grid that has at least one empty cell, is_game_over()
\* returns false.
C7_EmptyCellIsNotOver ==
    ret.op = "is_game_over" /\ ~Full(board) => ~ret.over

\* is_game_over() has returned on a grid with two empty cells, on which no
\* move merges tiles.
C7_Witness ==
    /\ ret.op = "is_game_over"
    /\ Cardinality({c \in Idx \X Idx : board[c[1]][c[2]] = 0}) = 2
    /\ \A d \in Directions : \A i \in Idx, j \in 1..(Size - 1) :
          Line(board, d, i)[j] = 0 \/ Line(board, d, i)[j] # Line(board, d, i)[j + 1]
    /\ ~ret.over

\* C9: for a fixed board, the number of nodes get_best_move explores with
\* depth d + 1 is never smaller than the number it explores with depth d, for
\* every d >= 1 (hist[d] is the number explored with depth d).
C9_NodesGrowWithDepth ==
    \A d \in 1..(Len(hist) - 1) : hist[d + 1] >= hist[d]

\* The searches of depth 1, 2 and 3 on a board with a legal move have run.
C9_Witness ==
    /\ ret.op = "get_best_move"
    /\ Len(hist) >= 3
    /\ hist[1] > 0
    /\ hist[2] > hist[1]
    /\ hist[3] > hist[2]

\* The directions in which a tile of grid b can slide or merge.
LegalDirections(b) == {d \in Directions : CanAct(b, d)}

\* C10: for every board on which exactly one direction is legal,
\* get_best_move returns that direction, for every search depth >= 1.
C10_OnlyLegalMove ==
    ret.op = "get_best_move" /\ Cardinality(LegalDirections(board)) = 1
        => ret.move \in LegalDirections(board)

\* A search of depth 3 has returned the one legal direction of its board.
C10_Witness ==
    /\ ret.op = "get_best_move"
    /\ agent.depth >= 3
    /\ LegalDirections(board) = {ret.move}

\* The tiles of a row in their order, then its empty cells.
PackedLeft(row) ==
    SelectSeq(row, LAMBDA v : v # 0) \o SelectSeq(row, LAMBDA v : v = 0)

\* No two tiles of the row that follow each other, with or without empty
\* cells between them, are equal.
NoEqualTiles(row) ==
    \A j \in 1..(Len(PackedLeft(row)) - 1) :
        PackedLeft(row)[j] = 0 \/ PackedLeft(row)[j] # PackedLeft(row)[j + 1]

\* C11: a move to the left on a board none of whose rows has two equal tiles
\* following each other leaves in each row the row's tiles, in their order,
\* before its empty cells, and returns 0 points; on the board 2, 0, 0, 0 /
\* 0, 0, 0, 0 / 0, 0, 0, 0 / 0, 2, 0, 0 with score 0 it leaves 2, 0, 0, 0 /
\* 0, 0, 0, 0 / 0, 0, 0, 0 / 2, 0, 0, 0, and returns changed = true and
\* 0 points.
C11_LeftPacksRows ==
    [][ret'.op = "move" /\ ret'.dir = 3 =>
          /\ (\A i \in Idx : NoEqualTiles(board[i])) =>
                /\ \A i \in Idx : board'[i] = PackedLeft(board[i])
                /\ ret'.points = 0
                /\ game'.score = game.score
          /\ board = Scenario /\ game.score = 0 =>
                /\ board' = <<<<2, 0, 0, 0>>, NoTiles, NoTiles, <<2, 0, 0, 0>>>>
                /\ ret'.moved
                /\ ret'.points = 0]_vars

\* The board of the scenario after a move to the left.
C11_Witness ==
    /\ ret = [op |-> "move", dir |-> 3, moved |-> TRUE, points |-> 0]
    /\ board = <<<<2, 0, 0, 0>>, NoTiles, NoTiles, <<2, 0, 0, 0>>>>
    /\ game.score = 0

\* C12: get_available_moves() returns the directions, each once, whose move
\* would change the grid, and no other direction, and leaves the grid and the
\* score of the game as they were.
C12_AvailableMoves ==
    [][ret'.op = "get_available_moves" =>
          /\ \A d \in Directions :
                Cardinality({n \in 1..Len(ret'.moves) : ret'.moves[n] = d})
                    = IF AfterMove(board, d) # board THEN 1 ELSE 0
          /\ \A n \in 1..Len(ret'.moves) : ret'.moves[n] \in Directions
          /\ board' = board
          /\ game'.score = game.score]_vars

\* get_available_moves() has returned two of the four directions, LEFT one of
\* them, on a board where a move to the left merges tiles.
C12_Witness ==
    /\ ret.op = "get_available_moves"
    /\ Len(ret.moves) = 2
    /\ ret.moves[2] = 3
    /\ \E i \in Idx : board[i][1] # 0 /\ board[i][1] = board[i][2]

\* C13: get_best_move(game) leaves the grid and the score of the game it is
\* given as they were, for every board and every search depth.
C13_SearchLeavesBoard ==
    [][ret'.op = "get_best_move" => board' = board /\ game'.score = game.score]_vars

\* A search of depth 3 that explored chance nodes and max nodes has returned
\* a move.
C13_Witness ==
    /\ ret.op = "get_best_move"
    /\ agent.depth >= 3
    /\ agent.nodes_explored > 50
    /\ ret.move # NoMove

\* C14: on a board without a legal move get_best_move returns None, raises
\* nothing and explores no node; on a board with a legal move it returns a
\* direction, never None.
C14_NoneIffNoMove ==
    ret.op = "get_best_move" /\ agent.depth >= 1 =>
        /\ ~ret.raised
        /\ LegalDirections(board) = {} => ret.move = NoMove /\ agent.nodes_explored = 0
        /\ LegalDirections(board) # {} => ret.move \in Directions

\* A search of depth 2 has returned None on a full board without a legal
\* move.
C14_Witness ==
    /\ ret.op = "get_best_move"
    /\ agent.depth >= 2
    /\ Full(board)
    /\ LegalDirections(board) = {}
    /\ ret.move = NoMove
    /\ agent.nodes_explored = 0

\* C15: get_best_move returns a legal move whose score no other legal move's
\* score exceeds, and of the moves with that score the first in the order UP,
\* RIGHT, DOWN, LEFT (ret.scores holds the scores of the legal moves, in
\* that order).
C15_FirstBestMove ==
    ret.op = "get_best_move" /\ ~ret.raised /\ LegalDirections(board) # {} =>
        LET moves == SelectSeq(<<0, 1, 2, 3>>, LAMBDA d : d \in LegalDirections(board))
        IN  /\ Len(ret.scores) = Len(moves)
            /\ \E n \in 1..Len(moves) :
                   /\ ret.move = moves[n]
                   /\ \A k \in 1..Len(moves) : ~Less(ret.scores[n], ret.scores[k])
                   /\ \A k \in 1..(n - 1) : Less(ret.scores[k], ret.scores[n])

\* A search of depth 2 or more has returned the first of two legal moves
\* that share the greatest score.
C15_Witness ==
    /\ ret.op = "get_best_move"
    /\ agent.depth >= 2
    /\ ret.move \in Directions
    /\ \E n \in 1..Len(ret.scores) :
          /\ Cardinality({d \in LegalDirections(board) : d < ret.move}) = n - 1
          /\ \E k \in (n + 1)..Len(ret.scores) : ret.scores[k] = ret.scores[n]
          /\ \A k \in 1..Len(ret.scores) : ~Less(ret.scores[n], ret.scores[k])

\* C16: get_best_move of an agent constructed with a depth below 1 raises a
\* configuration error before it searches: it explores no node and returns
\* no move.
C16_ShallowAgentRejected ==
    ret.op = "get_best_move" /\ agent.depth < 1 =>
        /\ ret.raised
        /\ agent.nodes_explored = 0
        /\ ret.move = NoMove

\* C17: move(direction) returns (changed, points) for the directions 0..3
\* only: with any other direction it raises an error and returns nothing.
C17_BadDirectionFails ==
    ret.op = "move" => ret.dir \in Directions

\* C19: add_random_tile() on a board with an empty cell writes 2 or 4 into one
\* cell that was empty, leaves every other cell and the score as they were,
\* and returns True; on a board without an empty cell it leaves the grid and
\* the score as they were and returns False.
C19_AddRandomTile ==
    [][ret'.op = "add_random_tile" =>
          IF \E c \in Idx \X Idx : board[c[1]][c[2]] = 0
          THEN /\ ret'.ok
               /\ \E c \in Idx \X Idx :
                     /\ board[c[1]][c[2]] = 0
                     /\ board'[c[1]][c[2]] \in {2, 4}
                     /\ \A d \in Idx \X Idx :
                           d # c => board'[d[1]][d[2]] = board[d[1]][d[2]]
               /\ game'.score = game.score
          ELSE /\ ~ret'.ok
               /\ board' = board
               /\ game'.score = game.score]_vars

\* add_random_tile() has returned False on a full board, after it filled the
\* last empty cell of the board with the value of the cell above it.
C19_Witness ==
    /\ ret = [op |-> "add_random_tile", ok |-> FALSE]
    /\ steps = 2
    /\ Full(board)
    /\ board[Size][Size] = board[Size - 1][Size]
    /\ \E a \in PackedRows : Emptied(board) = Emptied(Striped(a))

\* The sum of the five features of grid b, each times its weight in w.
WeightedSum(w, b) ==
    w.empty_tiles * (Len(get_empty_cells(b)) * Len(get_empty_cells(b)))
      + w.monotonicity * monotonicity(b)
      + w.smoothness * smoothness(b)
      + w.max_tile * Log2(MaxTile(b))
      + w.corner_bonus * (IF MaxTile(b) \in {b[1][1], b[1][4], b[4][1], b[4][4]}
                          THEN 1 ELSE 0)

\* C18: the evaluation of an agent that was given a weight vector is the sum
\* of the features, each times the weight given for it, whatever the number
\* of empty cells (ret.value is in thousands).
C18_GivenWeightsUsed ==
    ret.op = "evaluate" /\ agent.heuristic_weights # NoWeights =>
        1000 * ret.value = WeightedSum(agent.heuristic_weights[1], board)

\* The cells of the list s are cells of the list all, each taken once.
IsSampleOf(s, all) ==
    /\ \A n \in 1..Len(s) : \E k \in 1..Len(all) : s[n] = all[k]
    /\ \A n \in 1..Len(s), k \in 1..Len(s) : s[n] = s[k] => n = k

C21_Cutoff ==
    ret.op = "expectimax" =>
        /\ (ret.depth = 0 \/ LegalDirections(board) = {}) =>
               /\ ret.value = Num(evaluate(board))
               /\ ret.nodes = 1
               /\ ret.seen = {<<1, ret.depth>>}
        /\ \A p \in ret.seen : p[2] >= 0 /\ p[1] + p[2] = 1 + ret.depth

\* A decision node above a chance node above nodes of remaining depth 0: the
\* search has gone down two plies and stopped there.
C21_Witness ==
    /\ ret.op = "expectimax"
    /\ ret.depth = 2
    /\ ret.is_max_node
    /\ <<3, 0>> \in ret.seen
    /\ ret.nodes > 3

\* Claim C22: after a move that reports moved = True the board has an empty
\* cell, and the add_random_tile() a game loop calls after such a move
\* returns True.
C22_TileFitsAfterMove ==
    /\ ret.op = "move" /\ ret.moved => get_empty_cells(board) # <<>>
    /\ ret.op = "add_random_tile" => ret.ok

\* A tile has been added after a move that left one empty cell: the add
\* filled the board.
C22_Witness ==
    /\ ret.op = "add_random_tile"
    /\ ret.ok
    /\ Full(board)

\* What move(direction) returns and leaves on a game whose grid is b.
MoveOn(b, direction) == move(AsGame(b).heap, AsGame(b).game, direction)

\* The outcome r of a move has the given grid, and the changed flag and the
\* points ret' reports.
SameOutcome(r, grid) ==
    /\ board' = grid
    /\ ret'.moved = r.moved
    /\ ret'.points = r.points

\* Claim C23: the grid, the changed flag and the points of RIGHT are those of
\* LEFT on the row-reversed board, reversed back; those of UP are those of
\* LEFT on the transposed board, transposed back; those of DOWN are those of
\* RIGHT on the transposed board, transposed back.
C23_DirectionsBySymmetry ==
    [][ret'.op = "move" =>
         /\ ret'.dir = 1 =>
                SameOutcome(MoveOn(ReverseGrid(board), 3),
                            ReverseGrid(GridOf(MoveOn(ReverseGrid(board), 3))))
         /\ ret'.dir = 0 =>
                SameOutcome(MoveOn(TransposeGrid(board), 3),
                            TransposeGrid(GridOf(MoveOn(TransposeGrid(board), 3))))
         /\ ret'.dir = 2 =>
                SameOutcome(MoveOn(TransposeGrid(board), 1),
                            TransposeGrid(GridOf(MoveOn(TransposeGrid(board), 1))))]_vars

\* A move DOWN that merged tiles on a board that no reversal of rows and no
\* transposition leaves as it is.
C23_Witness ==
    /\ ret.op = "move"
    /\ ret.dir = 2
    /\ ret.moved
    /\ ret.points > 0
    /\ board # TransposeGrid(board)
    /\ board # ReverseGrid(board)

\* The cells of grid b, row after row.
Cells(b) == b[1] \o b[2] \o b[3] \o b[4]

\* The number of cells among cs that hold v.
CountOf(cs, v) == Len(SelectSeq(cs, LAMBDA x : x = v))

\* The number of tiles of value v that merges created on the way from the
\* cells before to the cells after, when they created the given number of
\* tiles of value 2v: a merge takes two tiles of value v off the board and
\* puts one of value 2v on it, so the tiles of value v on the board after are
\* those before, less two for each tile of value 2v created, plus those
\* created.
Created(before, after, v, above) ==
    CountOf(after, v) - CountOf(before, v) + 2 * above

\* The sum of the values of the tiles that merges created, for the values
\* from v down, c of them of value v.
RECURSIVE CreatedFrom(_, _, _, _)
CreatedFrom(before, after, v, c) ==
    IF v < 2 THEN 0
    ELSE v * c + CreatedFrom(before, after, v \div 2, Created(before, after, v \div 2, c))

\* The sum of the values of the tiles that merges created, none above top.
CreatedValue(before, after, top) ==
    CreatedFrom(before, after, top, Created(before, after, top, 0))

\* A move from the cells before, none above top / 2, to the cells after that
\* returned the given points and changed flag conserves the tiles' mass.
Conserved(before, after, top, points, moved) ==
    /\ SumTo(after, Size * Size) = SumTo(before, Size * Size)
    /\ CountOf(after, 0) >= CountOf(before, 0)
    /\ points = CreatedValue(before, after, top)
    /\ points > 0 => moved

\* Claim C26: a move leaves the sum of all cells as it was, does not increase
\* the number of non-zero cells, and returns as points the sum of the values
\* of the tiles its merges created; points above 0 come with moved = True.
C26_MassConserved ==
    [][ret'.op = "move" =>
         Conserved(Cells(board), Cells(board'), 2 * MaxTile(board), ret'.points,
                   ret'.moved)]_vars

\* A move whose merges created tiles of two values, a 4 and an 8.
C26_Witness ==
    /\ ret.op = "move"
    /\ ret.moved
    /\ ret.points >= 12
    /\ CountOf(Cells(board), 4) > 0
    /\ CountOf(Cells(board), 8) > 0
    /\ CountOf(Cells(board), 2) > 0

\* Claim C24: after a call of get_best_move, one that returns None included,
\* get_stats() reports the nodes the search of that call entered and the time
\* that call took.
C24_StatsOfThisCall ==
    ret.op = "get_best_move" =>
        /\ get_stats(agent).nodes_explored = ret.visited
        /\ get_stats(agent).time_taken = ret.elapsed

\* The loop as it stands: a move the agent returned is legal on the board,
\* the move made has moved, the counter counts the calls of get_best_move
\* between iterations and is never above max_moves, and a loop that has
\* ended has ended on a board without a legal move or with max_moves moves
\* made.
LoopSound ==
    /\ ret.op = "get_best_move" =>
           ~ret.raised /\ ret.move \in LegalDirections(board)
    /\ ret.op = "move" => ret.moved
    /\ ret.op \in {"add_random_tile", "while", "result"} => steps = Len(hist)
    /\ steps <= MaxMoves
    /\ ret.op = "result" =>
           /\ ret.moves = steps
           /\ LegalDirections(board) = {} \/ ret.moves = MaxMoves

\* Claim C25: in the game loop every move get_best_move returns is legal on
\* the board, so every iteration changes the board and increments the
\* counter, and the loop ends, on a board without a legal move or after
\* max_moves moves.
C25_LoopTerminates == []LoopSound /\ <>(ret.op = "result")

\* A loop that has ended on a board without a legal move, after at least one
\* move and before its counter reached max_moves.
C25_Witness ==
    /\ ret.op = "result"
    /\ ret.moves >= 1
    /\ ret.moves < MaxMoves
    /\ LegalDirections(board) = {}

====
